---- MODULE Spec2Model ----
(***************************************************************************)
(* Model of the portfolio service layer (src/app/services.py) over the     *)
(* relational tables declared in src/app/models.py.                        *)
(*                                                                         *)
(* The store is a set of rows per table.  Every service method is one      *)
(* action that performs the whole method: its query, its update and its    *)
(* commit.  The value the method returns is recorded in `last`.            *)
(* Slug lookups of workers running at the same time are modelled apart, as *)
(* a select step and a commit step per lookup (SpecConcurrent).            *)
(* The seed of workers running at the same time is modelled apart too, as  *)
(* one step per query and per commit (SpecSeed), and with commits that the *)
(* store fails (SpecFaults).                                               *)
(***************************************************************************)
EXTENDS Integers, Sequences, FiniteSets, TLC

VARIABLES
    users,              \* rows of table "users"
    site_config,        \* rows of table "site_config"
    projects,           \* rows of table "projects"
    galleries,          \* rows of table "galleries"
    three_d_projects,   \* rows of table "three_d_projects"
    project_images,     \* rows of table "project_images"
    photos,             \* rows of table "photos"
    three_d_renders,    \* rows of table "three_d_renders"
    contact_messages,   \* rows of table "contact_messages"
    clock,              \* logical datetime.utcnow(): one tick per constructed row
    extra,              \* per table, the number of rows written other than by the seed
    sessions,           \* per worker, the session of the call it is in
    counters,           \* commits the store has failed, slug lookups begun step by step
    last                \* the last call: [op, arg, ret]

\* the child tables and the contact messages
side_tables == <<project_images, photos, three_d_renders, contact_messages>>

tables == <<users, site_config, projects, galleries, three_d_projects, side_tables>>
vars == <<users, site_config, projects, galleries, three_d_projects, side_tables,
          clock, extra, sessions, counters, last>>

(***************************************************************************)
(* Bounds of the model.                                                    *)
(***************************************************************************)
\* rows written to each table other than by create_sample_data
MaxExtra == 1
\* cap on the view_count a row is driven to
MaxViews == 2
\* largest sort_order of a row written other than by create_sample_data
MaxSortOrder == 1
\* largest limit passed to a listing
MaxLimit == 2
\* contact messages created in one run
MaxMessages == 3
\* child rows (images, photos, renders) written out of band
MaxChildren == 2
\* workers serving requests at the same time
MaxWorkers == 2
\* commits that fail for a fault of the storage
MaxFaults == 1
\* slug lookups that run step by step
MaxLookups == 3

(***************************************************************************)
(* Enumerations and literals of the source.                                *)
(***************************************************************************)
ProjectType == {"ui_ux", "photography", "3d_design", "other"}

ProjectStatus == {"draft", "published", "archived"}

GalleryType == {"portfolio", "personal", "client", "exhibition"}

\* "no value" of an Optional argument
None == -1

SeedEmail == "alex@portfolio.com"

SeedProjectSlugs == {"ecoshop-mobile-app", "mindfulspace-dashboard"}

SeedGallerySlugs == {"urban-landscapes", "portrait-sessions"}

SeedThreeDSlugs == {"modern-living-room", "abstract-composition"}

\* a slug that rows of every table may carry, written other than by the seed
SharedSlug == "case-study"

\* slugs callers look up: one seeded slug of each table, the shared one, and
\* one that no row ever carries
Slugs ==
    {"ecoshop-mobile-app", "urban-landscapes", "modern-living-room",
     SharedSlug, "nonexistent-project"}

SeedSiteTitle == "Alexandra Smith - Designer & Photographer"

Emails == {SeedEmail, "other@example.com"}

SortOrders == 0..MaxSortOrder

Limits == 0..MaxLimit
\* "limit: int = 6" of the featured listings, the value the pages pass
DefaultLimit == 6


(***************************************************************************)
(* The store: primary keys, unique columns, commit.                        *)
(***************************************************************************)
Max(S) == CHOOSE x \in S : \A y \in S : y <= x

\* the primary key the store assigns to the next row of a table
NextId(table) == IF table = {} THEN 1 ELSE Max({r.id : r \in table}) + 1

\* faulty variant: the slug column is not unique
SlugConflictNever(table, rows) == FALSE

\* a commit that inserts `rows` into `table` violates UNIQUE(slug)
SlugConflict(table, rows) ==
    \/ \E r \in rows : \E t \in table : t.slug = r.slug
    \/ \E r1 \in rows : \E r2 \in rows : r1 # r2 /\ r1.slug = r2.slug

\* faulty variant: the email column is not unique
EmailConflictNever(table, rows) == FALSE

\* a commit that inserts `rows` into table "users" violates UNIQUE(email)
EmailConflict(table, rows) ==
    \/ \E r \in rows : \E t \in table : t.email = r.email
    \/ \E r1 \in rows : \E r2 \in rows : r1 # r2 /\ r1.email = r2.email

\* session.exec(query).first(): the row of the result with the lowest rowid,
\* as a set of at most one row, {} standing for None
First(rows) ==
    IF rows = {} THEN {}
    ELSE {CHOOSE r \in rows : \A o \in rows : r.id <= o.id}

\* faulty variant: the WHERE clause is dropped, any row is found
ProjectBySlugAnyRow(table, slug) == First(table)

\* faulty variant: the lookup filters on the published status as the listings do
ProjectBySlugPublished(table, slug) ==
    First({r \in table : r.slug = slug /\ r.status = "published"})

\* select(Project).where(Project.slug == slug)
ProjectBySlug(table, slug) == First({r \in table : r.slug = slug})

\* faulty variant: the lookup filters on visibility as the listings do
GalleryBySlugPublic(table, slug) == First({r \in table : r.slug = slug /\ r.is_public})

\* select(Gallery).where(Gallery.slug == slug)
GalleryBySlug(table, slug) == First({r \in table : r.slug = slug})

\* select(ThreeDProject).where(ThreeDProject.slug == slug)
ThreeDProjectBySlug(table, slug) == First({r \in table : r.slug = slug})

\* faulty variant: the guard never finds a user
ExistingUserNever(table) == {}

\* faulty variant: the guard looks for an active user only
ExistingUserActiveOnly(table) == First({u \in table : u.is_active})

\* select(User): "existing_user = session.exec(select(User)).first()"
ExistingUser(table) == First(table)

\* faulty variant: the incremented row is never committed
IncrementViewCountLost(table, row) == table

\* faulty variant: the commit also stamps updated_at
IncrementViewCountTouch(table, row) ==
    (table \ {row}) \cup {[row EXCEPT !.view_count = @ + 1, !.updated_at = @ + 1]}

\* row.view_count += 1; session.add(row); session.commit()
IncrementViewCount(table, row) ==
    (table \ {row}) \cup {[row EXCEPT !.view_count = @ + 1]}

(***************************************************************************)
(* Rows as the table classes construct them (column defaults included).    *)
(***************************************************************************)
User(id, email, is_active, now) ==
    [id |-> id, email |-> email, is_active |-> is_active,
     created_at |-> now, updated_at |-> now]

Project(id, slug, project_type, status, featured, sort_order, owner_id, now) ==
    [id |-> id, slug |-> slug, project_type |-> project_type, status |-> status,
     featured |-> featured, sort_order |-> sort_order, view_count |-> 0,
     like_count |-> 0, owner_id |-> owner_id, created_at |-> now, updated_at |-> now]

Gallery(id, slug, gallery_type, is_public, featured, sort_order, owner_id, now) ==
    [id |-> id, slug |-> slug, gallery_type |-> gallery_type, is_public |-> is_public,
     featured |-> featured, sort_order |-> sort_order, view_count |-> 0,
     owner_id |-> owner_id, created_at |-> now, updated_at |-> now]

ThreeDProject(id, slug, featured, sort_order, now) ==
    [id |-> id, slug |-> slug, featured |-> featured, sort_order |-> sort_order,
     view_count |-> 0, created_at |-> now, updated_at |-> now]

SiteConfig(id, site_title, now) ==
    [id |-> id, site_title |-> site_title, updated_at |-> now]

(***************************************************************************)
(* Queries of the listings.                                                *)
(***************************************************************************)
\* faulty variant: rows of equal sort_order come oldest first
BeforeOldestFirst(a, b) ==
    \/ a.sort_order > b.sort_order
    \/ a.sort_order = b.sort_order /\ a.created_at < b.created_at
    \/ a.sort_order = b.sort_order /\ a.created_at = b.created_at /\ a.id < b.id

\* ORDER BY sort_order DESC, created_at DESC (rows equal in both: by rowid)
Before(a, b) ==
    \/ a.sort_order > b.sort_order
    \/ a.sort_order = b.sort_order /\ a.created_at > b.created_at
    \/ a.sort_order = b.sort_order /\ a.created_at = b.created_at /\ a.id < b.id

RECURSIVE OrderBy(_)
OrderBy(rows) ==
    IF rows = {} THEN <<>>
    ELSE LET head == CHOOSE r \in rows : \A o \in rows \ {r} : Before(r, o)
         IN <<head>> \o OrderBy(rows \ {head})

\* faulty variant: the limit is not applied
LimitIgnored(rows, n) == rows

\* query.limit(n)
Limit(rows, n) == SubSeq(rows, 1, IF n < Len(rows) THEN n ELSE Len(rows))

\* "if limit: query = query.limit(limit)"
OptionalLimit(rows, limit) ==
    IF limit # None /\ limit # 0 THEN Limit(rows, limit) ELSE rows

\* faulty variant: the status condition is missing
FeaturedProjectsAnyStatus(table, limit) ==
    Limit(OrderBy({p \in table : p.featured}), limit)

FeaturedProjects(table, limit) ==
    Limit(OrderBy({p \in table : p.status = "published" /\ p.featured}), limit)

\* faulty variant: the status condition is missing
ProjectsByTypeAnyStatus(table, project_type, limit) ==
    OptionalLimit(OrderBy({p \in table : p.project_type = project_type}), limit)

ProjectsByType(table, project_type, limit) ==
    OptionalLimit(
        OrderBy({p \in table : p.status = "published" /\ p.project_type = project_type}),
        limit)

FeaturedGalleries(table, limit) ==
    Limit(OrderBy({g \in table : g.is_public /\ g.featured}), limit)

\* faulty variant: the visibility condition is missing
GalleriesByTypeAnyVisibility(table, gallery_type, limit) ==
    OptionalLimit(OrderBy({g \in table : g.gallery_type = gallery_type}), limit)

GalleriesByType(table, gallery_type, limit) ==
    OptionalLimit(
        OrderBy({g \in table : g.is_public /\ g.gallery_type = gallery_type}),
        limit)

Featured3DProjects(table, limit) ==
    Limit(OrderBy({t \in table : t.featured}), limit)

\* session.refresh(row): the row as the store holds it after the commit
Refresh(table, row) == {r \in table : r.id = row.id}

RECURSIVE SumViews(_)
SumViews(table) ==
    IF table = {} THEN 0
    ELSE LET r == CHOOSE x \in table : TRUE
         IN r.view_count + SumViews(table \ {r})

\* slug lookups that have hit so far
ViewTotal == SumViews(projects) + SumViews(galleries) + SumViews(three_d_projects)

ContentTables == {"projects", "galleries", "three_d_projects"}

\* Out-of-band writes are bounded: at most MaxExtra rows in all, and, besides
\* "users", in one content table only.
MayInsert(t) ==
    /\ extra["users"] + extra["projects"] + extra["galleries"] + extra["three_d_projects"]
           < MaxExtra
    /\ t \in ContentTables => \A o \in ContentTables \ {t} : extra[o] = 0

Call(op, arg, ret) == [op |-> op, arg |-> arg, ret |-> ret]

\* the workers, and what a worker's session holds: nothing, or the row its
\* slug lookup has loaded
Workers == 1..MaxWorkers

Idle == [pc |-> "idle", open |-> FALSE]

Reading(op, slug, row) ==
    [pc |-> "read", open |-> TRUE, op |-> op, slug |-> slug, row |-> row]

\* faulty variant: a call that raises leaves its session open
ExitLeakOnRaise(how) == IF how = "raised" THEN [Idle EXCEPT !.open = TRUE] ELSE Idle

\* leaving "with get_session() as session:", by a return or by an exception
Exit(how) == Idle

(***************************************************************************)
(* Initial state: create_tables() on a fresh database.                     *)
(***************************************************************************)
Init ==
    /\ users = {}
    /\ site_config = {}
    /\ projects = {}
    /\ galleries = {}
    /\ three_d_projects = {}
    /\ project_images = {}
    /\ photos = {}
    /\ three_d_renders = {}
    /\ contact_messages = {}
    /\ clock = 0
    /\ sessions = [w \in Workers |-> Idle]
    /\ counters = [faults |-> 0, lookups |-> 0]
    /\ extra = [t \in ContentTables \cup {"users"} |-> 0]
    /\ last = Call("create_tables", None, None)

(***************************************************************************)
(* Rows written to the tables other than by the seed (an administrator, a  *)
(* fixture), under the constraints the table classes declare: the primary  *)
(* key, UNIQUE(email), UNIQUE(slug) and owner_id REFERENCES users(id).      *)
(* Such a row carries the slug the seed writes to its table or SharedSlug. *)
(***************************************************************************)
InsertUser ==
    /\ MayInsert("users")
    /\ \E email \in Emails, is_active \in BOOLEAN :
          /\ \A u \in users : u.email # email
          /\ users' = users \cup {User(NextId(users), email, is_active, clock)}
    /\ clock' = clock + 1
    /\ extra' = [extra EXCEPT !["users"] = @ + 1]
    /\ UNCHANGED <<sessions, counters>>
    /\ last' = Call("insert", "users", None)
    /\ UNCHANGED <<site_config, projects, galleries, three_d_projects, side_tables>>

InsertProject ==
    /\ MayInsert("projects")
    /\ \E slug \in {"ecoshop-mobile-app", SharedSlug}, project_type \in ProjectType,
          status \in ProjectStatus, featured \in BOOLEAN, sort_order \in SortOrders,
          owner \in users :
          LET row == Project(NextId(projects), slug, project_type, status, featured,
                             sort_order, owner.id, clock)
          IN /\ ~SlugConflict(projects, {row})
             /\ projects' = projects \cup {row}
    /\ clock' = clock + 1
    /\ extra' = [extra EXCEPT !["projects"] = @ + 1]
    /\ UNCHANGED <<sessions, counters>>
    /\ last' = Call("insert", "projects", None)
    /\ UNCHANGED <<users, site_config, galleries, three_d_projects, side_tables>>

InsertGallery ==
    /\ MayInsert("galleries")
    /\ \E slug \in {"urban-landscapes", SharedSlug}, gallery_type \in GalleryType,
          is_public \in BOOLEAN, featured \in BOOLEAN, sort_order \in SortOrders,
          owner \in users :
          LET row == Gallery(NextId(galleries), slug, gallery_type, is_public, featured,
                             sort_order, owner.id, clock)
          IN /\ ~SlugConflict(galleries, {row})
             /\ galleries' = galleries \cup {row}
    /\ clock' = clock + 1
    /\ extra' = [extra EXCEPT !["galleries"] = @ + 1]
    /\ UNCHANGED <<sessions, counters>>
    /\ last' = Call("insert", "galleries", None)
    /\ UNCHANGED <<users, site_config, projects, three_d_projects, side_tables>>

InsertThreeDProject ==
    /\ MayInsert("three_d_projects")
    /\ \E slug \in {"modern-living-room", SharedSlug}, featured \in BOOLEAN,
          sort_order \in SortOrders :
          LET row == ThreeDProject(NextId(three_d_projects), slug, featured, sort_order, clock)
          IN /\ ~SlugConflict(three_d_projects, {row})
             /\ three_d_projects' = three_d_projects \cup {row}
    /\ clock' = clock + 1
    /\ extra' = [extra EXCEPT !["three_d_projects"] = @ + 1]
    /\ UNCHANGED <<sessions, counters>>
    /\ last' = Call("insert", "three_d_projects", None)
    /\ UNCHANGED <<users, site_config, projects, galleries, side_tables>>

(***************************************************************************)
(* PortfolioService: slug lookups.                                         *)
(***************************************************************************)
get_project_by_slug ==
    \E slug \in Slugs :
        LET project == ProjectBySlug(projects, slug)
        IN /\ project # {} => ViewTotal < MaxViews
           /\ projects' = IF project = {} THEN projects
                          ELSE IncrementViewCount(projects, CHOOSE r \in project : TRUE)
           /\ last' = Call("get_project_by_slug", slug,
                           IF project = {} THEN {}
                           ELSE Refresh(projects', CHOOSE r \in project : TRUE))
           /\ UNCHANGED <<users, site_config, galleries, three_d_projects, clock, extra, side_tables, sessions, counters>>

get_gallery_by_slug ==
    \E slug \in Slugs :
        LET gallery == GalleryBySlug(galleries, slug)
        IN /\ gallery # {} => ViewTotal < MaxViews
           /\ galleries' = IF gallery = {} THEN galleries
                           ELSE IncrementViewCount(galleries, CHOOSE r \in gallery : TRUE)
           /\ last' = Call("get_gallery_by_slug", slug,
                           IF gallery = {} THEN {}
                           ELSE Refresh(galleries', CHOOSE r \in gallery : TRUE))
           /\ UNCHANGED <<users, site_config, projects, three_d_projects, clock, extra, side_tables, sessions, counters>>

get_3d_project_by_slug ==
    \E slug \in Slugs :
        LET project == ThreeDProjectBySlug(three_d_projects, slug)
        IN /\ project # {} => ViewTotal < MaxViews
           /\ three_d_projects' =
                  IF project = {} THEN three_d_projects
                  ELSE IncrementViewCount(three_d_projects, CHOOSE r \in project : TRUE)
           /\ last' = Call("get_3d_project_by_slug", slug,
                           IF project = {} THEN {}
                           ELSE Refresh(three_d_projects', CHOOSE r \in project : TRUE))
           /\ UNCHANGED <<users, site_config, projects, galleries, clock, extra, side_tables, sessions, counters>>

(***************************************************************************)
(* The slug lookups of workers running at the same time.  Each lookup is   *)
(* a SELECT, an increment of the loaded object in the worker's memory and  *)
(* a commit that writes the incremented number; between the SELECT and the *)
(* commit the store is open to the other workers.                          *)
(***************************************************************************)
\* faulty variant: the loaded number is written back as it was read
FlushAsRead(table, row) ==
    {IF r.id = row.id THEN [r EXCEPT !.view_count = row.view_count] ELSE r : r \in table}

\* commit of "row.view_count += 1": UPDATE ... SET view_count = <the number
\* computed from the loaded object> WHERE id = <its id>
Flush(table, row) ==
    {IF r.id = row.id THEN [r EXCEPT !.view_count = row.view_count + 1] ELSE r : r \in table}

\* "with get_session() as session: row = session.exec(select(...)).first()"
Select(w, op, found, slug) ==
    /\ sessions[w].pc = "idle"
    /\ IF found = {}
       THEN /\ last' = Call(op, slug, {})
            /\ sessions' = [sessions EXCEPT ![w] = Exit("returned")]
            /\ UNCHANGED counters
       ELSE /\ ViewTotal < MaxViews
            /\ counters.lookups < MaxLookups
            /\ counters' = [counters EXCEPT !.lookups = @ + 1]
            /\ sessions' = [sessions EXCEPT ![w] = Reading(op, slug, CHOOSE r \in found : TRUE)]
            /\ last' = Call("select", slug, None)

\* "row.view_count += 1; session.add(row); session.commit();
\*  session.refresh(row); return row"
Commit(w, op, table, tableAfter) ==
    /\ sessions[w].pc = "read"
    /\ sessions[w].op = op
    /\ tableAfter = Flush(table, sessions[w].row)
    /\ last' = Call(op, sessions[w].slug, Refresh(tableAfter, sessions[w].row))
    /\ sessions' = [sessions EXCEPT ![w] = Exit("returned")]
    /\ UNCHANGED counters

project_select(w) ==
    /\ \E slug \in Slugs :
          Select(w, "get_project_by_slug", ProjectBySlug(projects, slug), slug)
    /\ UNCHANGED <<tables, clock, extra>>

project_commit(w) ==
    /\ Commit(w, "get_project_by_slug", projects, projects')
    /\ UNCHANGED <<users, site_config, galleries, three_d_projects, side_tables,
                   clock, extra>>

gallery_select(w) ==
    /\ \E slug \in Slugs :
          Select(w, "get_gallery_by_slug", GalleryBySlug(galleries, slug), slug)
    /\ UNCHANGED <<tables, clock, extra>>

gallery_commit(w) ==
    /\ Commit(w, "get_gallery_by_slug", galleries, galleries')
    /\ UNCHANGED <<users, site_config, projects, three_d_projects, side_tables,
                   clock, extra>>

three_d_project_select(w) ==
    /\ \E slug \in Slugs :
          Select(w, "get_3d_project_by_slug",
                 ThreeDProjectBySlug(three_d_projects, slug), slug)
    /\ UNCHANGED <<tables, clock, extra>>

three_d_project_commit(w) ==
    /\ Commit(w, "get_3d_project_by_slug", three_d_projects, three_d_projects')
    /\ UNCHANGED <<users, site_config, projects, galleries, side_tables,
                   clock, extra>>

(***************************************************************************)
(* PortfolioService: listings.                                             *)
(***************************************************************************)
get_featured_projects ==
    /\ \E limit \in Limits \cup {DefaultLimit} :
          last' = Call("get_featured_projects", <<limit>>, FeaturedProjects(projects, limit))
    /\ UNCHANGED <<tables, clock, extra, sessions, counters>>

get_projects_by_type ==
    /\ \E project_type \in ProjectType, limit \in Limits \cup {None} :
          last' = Call("get_projects_by_type", <<project_type, limit>>,
                       ProjectsByType(projects, project_type, limit))
    /\ UNCHANGED <<tables, clock, extra, sessions, counters>>

get_featured_galleries ==
    /\ \E limit \in Limits \cup {DefaultLimit} :
          last' = Call("get_featured_galleries", <<limit>>, FeaturedGalleries(galleries, limit))
    /\ UNCHANGED <<tables, clock, extra, sessions, counters>>

get_galleries_by_type ==
    /\ \E gallery_type \in GalleryType, limit \in Limits \cup {None} :
          last' = Call("get_galleries_by_type", <<gallery_type, limit>>,
                       GalleriesByType(galleries, gallery_type, limit))
    /\ UNCHANGED <<tables, clock, extra, sessions, counters>>

get_featured_3d_projects ==
    /\ \E limit \in Limits \cup {DefaultLimit} :
          last' = Call("get_featured_3d_projects", <<limit>>,
                       Featured3DProjects(three_d_projects, limit))
    /\ UNCHANGED <<tables, clock, extra, sessions, counters>>

(***************************************************************************)
(* SeedDataService.create_sample_data.  The method commits four times; a   *)
(* commit that violates a unique column raises and the rows of the earlier *)
(* commits stay.                                                           *)
(***************************************************************************)
SeedOwner(id, now) == User(id, SeedEmail, TRUE, now)

\* faulty variant: status left to the column default, draft
SeedProjectsDraft(id, owner_id, now) ==
    {Project(id, "ecoshop-mobile-app", "ui_ux", "draft", TRUE, 1, owner_id, now),
     Project(id + 1, "mindfulspace-dashboard", "ui_ux", "draft", TRUE, 2, owner_id, now + 1)}

SeedProjects(id, owner_id, now) ==
    {Project(id, "ecoshop-mobile-app", "ui_ux", "published", TRUE, 1, owner_id, now),
     Project(id + 1, "mindfulspace-dashboard", "ui_ux", "published", TRUE, 2, owner_id, now + 1)}

SeedGalleries(id, owner_id, now) ==
    {Gallery(id, "urban-landscapes", "portfolio", TRUE, TRUE, 1, owner_id, now),
     Gallery(id + 1, "portrait-sessions", "client", TRUE, TRUE, 2, owner_id, now + 1)}

SeedThreeDProjects(id, now) ==
    {ThreeDProject(id, "modern-living-room", TRUE, 1, now),
     ThreeDProject(id + 1, "abstract-composition", TRUE, 2, now + 1)}

create_sample_data ==
    IF ExistingUser(users) # {}
    THEN \* "if existing_user: return"
         /\ last' = Call("create_sample_data", None, "skipped")
         /\ UNCHANGED <<tables, clock, extra, sessions, counters>>
    ELSE LET owner == SeedOwner(NextId(users), clock)
             owner_id == IF owner.id # 0 THEN owner.id ELSE 1
             config == SiteConfig(NextId(site_config), SeedSiteTitle, clock + 1)
             ps == SeedProjects(NextId(projects), owner_id, clock + 2)
             gs == SeedGalleries(NextId(galleries), owner_id, clock + 4)
             ts == SeedThreeDProjects(NextId(three_d_projects), clock + 6)
             \* the four commits, each reached only if the one before it succeeded
             commit1 == ~EmailConflict(users, {owner})
             commit2 == commit1 /\ ~SlugConflict(projects, ps)
             commit3 == commit2 /\ ~SlugConflict(galleries, gs)
             commit4 == commit3 /\ ~SlugConflict(three_d_projects, ts)
         IN /\ users' = IF commit1 THEN users \cup {owner} ELSE users
            /\ site_config' = IF commit2 THEN site_config \cup {config} ELSE site_config
            /\ projects' = IF commit2 THEN projects \cup ps ELSE projects
            /\ galleries' = IF commit3 THEN galleries \cup gs ELSE galleries
            /\ three_d_projects' =
                   IF commit4 THEN three_d_projects \cup ts ELSE three_d_projects
            /\ clock' = clock + (IF ~commit1 THEN 1 ELSE IF ~commit2 THEN 4
                                 ELSE IF ~commit3 THEN 6 ELSE 8)
            /\ last' = Call("create_sample_data", None,
                            IF commit4 THEN "seeded" ELSE "raised")
            /\ extra' = extra
            /\ UNCHANGED <<sessions, counters>>
            /\ UNCHANGED side_tables

(***************************************************************************)
(* create_sample_data commit by commit, for workers that seed at the same  *)
(* time and for a store whose commits may fail.  A commit that raises      *)
(* rolls its rows back and the exception leaves the method: nothing        *)
(* catches it and nothing retries.                                         *)
(***************************************************************************)
Seeding(at, owner_id) ==
    [pc |-> "seed", open |-> TRUE, at |-> at, owner_id |-> owner_id]

\* faulty variant: the key of the committed row is not read back
AssignedIdUnset(row) == None

\* session.refresh(owner): owner.id is the key the store assigned
AssignedId(row) == row.id

\* the commit of worker w raises, for a fault of the storage or a constraint
SeedRaises(w, fault, rows) ==
    /\ sessions' = [sessions EXCEPT ![w] = Exit("raised")]
    /\ counters' = IF fault THEN [counters EXCEPT !.faults = @ + 1] ELSE counters
    /\ clock' = clock + rows
    /\ last' = Call("create_sample_data", None, "raised")
    /\ UNCHANGED <<tables, extra>>

\* "with get_session() as session:"
seed_enter(w) ==
    /\ sessions[w].pc = "idle"
    /\ sessions' = [sessions EXCEPT ![w] = Seeding("check", None)]
    /\ last' = Call("enter", "create_sample_data", None)
    /\ UNCHANGED <<tables, clock, extra, counters>>

\* "existing_user = ...first(); if existing_user: return"
seed_check(w) ==
    /\ sessions[w].pc = "seed"
    /\ sessions[w].at = "check"
    /\ IF ExistingUser(users) # {}
       THEN /\ sessions' = [sessions EXCEPT ![w] = Exit("returned")]
            /\ last' = Call("create_sample_data", None, "skipped")
       ELSE /\ sessions' = [sessions EXCEPT ![w] = Seeding("owner", None)]
            /\ last' = Call("select", "users", None)
    /\ UNCHANGED <<tables, clock, extra, counters>>

\* "session.add(owner); session.commit(); session.refresh(owner)"
seed_commit_owner(w) ==
    /\ sessions[w].pc = "seed"
    /\ sessions[w].at = "owner"
    /\ LET owner == SeedOwner(NextId(users), clock)
       IN  IF EmailConflict(users, {owner})
           THEN SeedRaises(w, FALSE, 1)
           ELSE /\ users' = users \cup {owner}
                /\ sessions' = [sessions EXCEPT ![w] = Seeding("projects", AssignedId(owner))]
                /\ clock' = clock + 1
                /\ last' = Call("commit", "users", None)
                /\ UNCHANGED <<site_config, projects, galleries, three_d_projects,
                               side_tables, extra, counters>>

\* faulty variant: the configuration is committed on its own, before the
\* projects are added
seed_commit_config_alone(w) ==
    /\ sessions[w].pc = "seed"
    /\ sessions[w].at = "projects"
    /\ IF site_config = {}
       THEN /\ site_config' = {SiteConfig(NextId(site_config), SeedSiteTitle, clock)}
            /\ projects' = projects
            /\ sessions' = sessions
       ELSE /\ projects' = projects \cup
                    SeedProjects(NextId(projects), sessions[w].owner_id, clock)
            /\ site_config' = site_config
            /\ sessions' = [sessions EXCEPT ![w] = Seeding("galleries", sessions[w].owner_id)]
    /\ clock' = clock + 2
    /\ last' = Call("commit", "projects", None)
    /\ UNCHANGED <<users, galleries, three_d_projects, side_tables, extra, counters>>

\* "session.add(site_config)", "for project in projects: session.add(project)",
\* "session.commit()": the configuration and both projects in one commit
seed_commit_projects(w) ==
    /\ sessions[w].pc = "seed"
    /\ sessions[w].at = "projects"
    /\ LET config == SiteConfig(NextId(site_config), SeedSiteTitle, clock)
           ps == SeedProjects(NextId(projects), sessions[w].owner_id, clock + 1)
       IN  IF SlugConflict(projects, ps)
           THEN SeedRaises(w, FALSE, 3)
           ELSE /\ site_config' = site_config \cup {config}
                /\ projects' = projects \cup ps
                /\ sessions' = [sessions EXCEPT ![w] = Seeding("galleries", sessions[w].owner_id)]
                /\ clock' = clock + 3
                /\ last' = Call("commit", "projects", None)
                /\ UNCHANGED <<users, galleries, three_d_projects, side_tables,
                               extra, counters>>

\* "for gallery in galleries: session.add(gallery)", "session.commit()"
seed_commit_galleries(w) ==
    /\ sessions[w].pc = "seed"
    /\ sessions[w].at = "galleries"
    /\ LET gs == SeedGalleries(NextId(galleries), sessions[w].owner_id, clock)
       IN  IF SlugConflict(galleries, gs)
           THEN SeedRaises(w, FALSE, 2)
           ELSE /\ galleries' = galleries \cup gs
                /\ sessions' = [sessions EXCEPT ![w] = Seeding("three_d", sessions[w].owner_id)]
                /\ clock' = clock + 2
                /\ last' = Call("commit", "galleries", None)
                /\ UNCHANGED <<users, site_config, projects, three_d_projects,
                               side_tables, extra, counters>>

\* "for project in threed_projects: session.add(project)", "session.commit()",
\* and the end of the method
seed_commit_three_d(w) ==
    /\ sessions[w].pc = "seed"
    /\ sessions[w].at = "three_d"
    /\ LET ts == SeedThreeDProjects(NextId(three_d_projects), clock)
       IN  IF SlugConflict(three_d_projects, ts)
           THEN SeedRaises(w, FALSE, 2)
           ELSE /\ three_d_projects' = three_d_projects \cup ts
                /\ sessions' = [sessions EXCEPT ![w] = Exit("returned")]
                /\ clock' = clock + 2
                /\ last' = Call("create_sample_data", None, "seeded")
                /\ UNCHANGED <<users, site_config, projects, galleries,
                               side_tables, extra, counters>>

\* one of the four commits fails for a fault of the storage
seed_commit_fails(w) ==
    /\ sessions[w].pc = "seed"
    /\ sessions[w].at \in {"owner", "projects", "galleries", "three_d"}
    /\ counters.faults < MaxFaults
    /\ SeedRaises(w, TRUE, 0)

(***************************************************************************)
(* PortfolioService: the site configuration and the owner.                 *)
(***************************************************************************)
\* faulty variant: the configuration is never found
CurrentSiteConfigNone(table) == {}

\* session.exec(select(SiteConfig)).first()
CurrentSiteConfig(table) == First(table)

\* faulty variant: the is_active condition is missing
PortfolioOwnerAny(table) == First(table)

\* session.exec(select(User).where(User.is_active)).first()
PortfolioOwner(table) == First({u \in table : u.is_active})

get_site_config ==
    /\ last' = Call("get_site_config", <<>>, CurrentSiteConfig(site_config))
    /\ UNCHANGED <<tables, clock, extra, sessions, counters>>

get_portfolio_owner ==
    /\ last' = Call("get_portfolio_owner", <<>>, PortfolioOwner(users))
    /\ UNCHANGED <<tables, clock, extra, sessions, counters>>

(***************************************************************************)
(* Child rows and their listings.  No operation of the program writes a    *)
(* child row; they are written out of band, under the foreign key of their *)
(* table.  The queries have no ORDER BY: the database may return the rows  *)
(* in any order.                                                           *)
(***************************************************************************)
\* the id the tests ask for on an empty store
MissingId == 999

ParentIds == {1, 2, MissingId}

ProjectImage(id, project_id, now) ==
    [id |-> id, project_id |-> project_id, sort_order |-> 0, is_featured |-> FALSE,
     created_at |-> now]

Photo(id, gallery_id, now) ==
    [id |-> id, gallery_id |-> gallery_id, sort_order |-> 0, featured |-> FALSE,
     created_at |-> now]

ThreeDRender(id, project_id, now) ==
    [id |-> id, project_id |-> project_id, sort_order |-> 0, is_final |-> TRUE,
     created_at |-> now]

MayInsertChild ==
    Cardinality(project_images) + Cardinality(photos) + Cardinality(three_d_renders)
        < MaxChildren

InsertProjectImage ==
    /\ MayInsertChild
    /\ \E parent \in projects :
          project_images' = project_images \cup
              {ProjectImage(NextId(project_images), parent.id, clock + 1)}
    /\ clock' = clock + 1
    /\ last' = Call("insert", "project_images", None)
    /\ UNCHANGED <<users, site_config, projects, galleries, three_d_projects,
                   photos, three_d_renders, contact_messages, extra, sessions, counters>>

InsertPhoto ==
    /\ MayInsertChild
    /\ \E parent \in galleries :
          photos' = photos \cup {Photo(NextId(photos), parent.id, clock + 1)}
    /\ clock' = clock + 1
    /\ last' = Call("insert", "photos", None)
    /\ UNCHANGED <<users, site_config, projects, galleries, three_d_projects,
                   project_images, three_d_renders, contact_messages, extra, sessions, counters>>

InsertThreeDRender ==
    /\ MayInsertChild
    /\ \E parent \in three_d_projects :
          three_d_renders' = three_d_renders \cup
              {ThreeDRender(NextId(three_d_renders), parent.id, clock + 1)}
    /\ clock' = clock + 1
    /\ last' = Call("insert", "three_d_renders", None)
    /\ UNCHANGED <<users, site_config, projects, galleries, three_d_projects,
                   project_images, photos, contact_messages, extra, sessions, counters>>

\* the orders in which a query without ORDER BY may return its rows
Orderings(rows) ==
    {seq \in [1..Cardinality(rows) -> rows] : {seq[i] : i \in DOMAIN seq} = rows}

\* faulty variant: the WHERE clause is missing
ProjectImagesAll(table, project_id) == table

ProjectImages(table, project_id) == {i \in table : i.project_id = project_id}

GalleryPhotos(table, gallery_id) == {p \in table : p.gallery_id = gallery_id}

ThreeDProjectRenders(table, project_id) == {r \in table : r.project_id = project_id}

get_project_images ==
    /\ \E project_id \in ParentIds :
          \E ret \in Orderings(ProjectImages(project_images, project_id)) :
              last' = Call("get_project_images", <<project_id>>, ret)
    /\ UNCHANGED <<tables, clock, extra, sessions, counters>>

get_gallery_photos ==
    /\ \E gallery_id \in ParentIds :
          \E ret \in Orderings(GalleryPhotos(photos, gallery_id)) :
              last' = Call("get_gallery_photos", <<gallery_id>>, ret)
    /\ UNCHANGED <<tables, clock, extra, sessions, counters>>

get_3d_project_renders ==
    /\ \E project_id \in ParentIds :
          \E ret \in Orderings(ThreeDProjectRenders(three_d_renders, project_id)) :
              last' = Call("get_3d_project_renders", <<project_id>>, ret)
    /\ UNCHANGED <<tables, clock, extra, sessions, counters>>

(***************************************************************************)
(* Contact messages.  A text is modelled by what it says and how long it   *)
(* is, so that the length bounds of the schema can be reached.             *)
(***************************************************************************)
Txt(text, len) == [text |-> text, len |-> len]

Fields == {"name", "email", "subject", "message"}

\* Field(max_length=...) of ContactMessageCreate
NameMaxLength == 100
EmailMaxLength == 255
SubjectMaxLength == 200
MessageMaxLength == 2000

MaxLength(f) ==
    CASE f = "name" -> NameMaxLength
      [] f = "email" -> EmailMaxLength
      [] f = "subject" -> SubjectMaxLength
      [] f = "message" -> MessageMaxLength

\* "limit: int = 10" of get_recent_messages
DefaultRecentLimit == 10

\* the submissions of the tests, and one whose fields all have the longest
\* length the schema admits
JohnDoe ==
    [name    |-> Txt("John Doe", 8),
     email   |-> Txt("john@example.com", 16),
     subject |-> Txt("Project Inquiry", 15),
     message |-> Txt("I would like to discuss a potential project.", 44)]

UserOne ==
    [name    |-> Txt("User 1", 6),
     email   |-> Txt("user1@example.com", 17),
     subject |-> Txt("Subject 1", 9),
     message |-> Txt("Message content 1", 17)]

Longest == [f \in Fields |-> Txt("longest " \o f, MaxLength(f))]

\* one field a character too long, one field left out, one field left empty
TooLong == {[JohnDoe EXCEPT ![f] = Txt("too long " \o f, MaxLength(f) + 1)] : f \in Fields}
LeftOut == {[g \in Fields \ {f} |-> JohnDoe[g]] : f \in Fields}
LeftEmpty == {[JohnDoe EXCEPT ![f] = Txt("", 0)] : f \in Fields}

\* the calls of the tests: (message_data, ip_address, user_agent), the last
\* two given or left at their defaults
ServiceCalls == {<<JohnDoe, "192.168.1.1", "Test Browser">>, <<UserOne, "", "">>}

\* faulty variant: the lengths are not validated
ValidatesPresenceOnly(kwargs) == \A f \in Fields : f \in DOMAIN kwargs

\* ContactMessageCreate(**kwargs) raises no ValidationError: every field is
\* given and none is longer than its max_length
Validates(kwargs) ==
    \A f \in Fields : f \in DOMAIN kwargs /\ kwargs[f].len <= MaxLength(f)

\* faulty variant: the client's address and agent are not stored
ContactMessageNoClient(id, message_data, ip_address, user_agent, now) ==
    [id |-> id, name |-> message_data.name, email |-> message_data.email,
     subject |-> message_data.subject, message |-> message_data.message,
     status |-> "new", ip_address |-> "", user_agent |-> "",
     replied_at |-> None, created_at |-> now]

\* the row create_contact_message builds
ContactMessage(id, message_data, ip_address, user_agent, now) ==
    [id |-> id, name |-> message_data.name, email |-> message_data.email,
     subject |-> message_data.subject, message |-> message_data.message,
     status |-> "new", ip_address |-> ip_address, user_agent |-> user_agent,
     replied_at |-> None, created_at |-> now]

\* faulty variant: the oldest message comes first
NewerFirstReversed(a, b) ==
    \/ a.created_at < b.created_at
    \/ a.created_at = b.created_at /\ a.id < b.id

\* ORDER BY created_at DESC (rows of equal created_at: by rowid)
NewerFirst(a, b) ==
    \/ a.created_at > b.created_at
    \/ a.created_at = b.created_at /\ a.id < b.id

RECURSIVE OrderByCreatedAt(_)
OrderByCreatedAt(rows) ==
    IF rows = {} THEN <<>>
    ELSE LET head == CHOOSE r \in rows : \A o \in rows \ {r} : NewerFirst(r, o)
         IN <<head>> \o OrderByCreatedAt(rows \ {head})

RecentMessages(table, limit) == Limit(OrderByCreatedAt(table), limit)

\* session.add(message); session.commit(); session.refresh(message)
AddContactMessage(op, arg, message_data, ip_address, user_agent) ==
    LET message == ContactMessage(NextId(contact_messages), message_data,
                                  ip_address, user_agent, clock + 1)
    IN  /\ contact_messages' = contact_messages \cup {message}
        /\ clock' = clock + 1
        /\ last' = Call(op, arg, Refresh(contact_messages', message))

\* the service called with a schema instance that passed validation
create_contact_message ==
    /\ Cardinality(contact_messages) < MaxMessages
    /\ \E call \in ServiceCalls :
          /\ Validates(call[1])
          /\ AddContactMessage("create_contact_message", call,
                               call[1], call[2], call[3])
    /\ UNCHANGED <<users, site_config, projects, galleries, three_d_projects,
                   project_images, photos, three_d_renders, extra, sessions, counters>>

\* ContactMessageCreate(**kwargs) raises: the caller never reaches the service
ContactMessageCreateError ==
    /\ \E kwargs \in TooLong \cup LeftOut :
          /\ ~Validates(kwargs)
          /\ last' = Call("ContactMessageCreate", kwargs, "ValidationError")
    /\ UNCHANGED <<tables, clock, extra, sessions, counters>>

\* the handler of the "Send Message" button
send_message ==
    /\ Cardinality(contact_messages) < MaxMessages
    /\ \E values \in {JohnDoe, Longest} \cup TooLong \cup LeftEmpty :
          IF \E f \in Fields : values[f].len = 0
          THEN /\ last' = Call("send_message", values, "Please fill in all fields")
               /\ UNCHANGED <<contact_messages, clock>>
          ELSE IF ~Validates(values)
          THEN /\ last' = Call("send_message", values, "Error sending message")
               /\ UNCHANGED <<contact_messages, clock>>
          ELSE /\ AddContactMessage("create_contact_message", <<values, "", "">>,
                                    values, "", "")
    /\ UNCHANGED <<users, site_config, projects, galleries, three_d_projects,
                   project_images, photos, three_d_renders, extra, sessions, counters>>

get_recent_messages ==
    /\ \E limit \in Limits \cup {DefaultRecentLimit} :
          last' = Call("get_recent_messages", <<limit>>,
                       RecentMessages(contact_messages, limit))
    /\ UNCHANGED <<tables, clock, extra, sessions, counters>>

(***************************************************************************)
(* Commits that the store rejects for a fault of the storage.  The service *)
(* catches nothing: the exception leaves the "with" block and the method.  *)
(***************************************************************************)
\* faulty variant: the view count written before the fault stays in the store
LookupRaisesAfterWrite(w, table) == Flush(table, sessions[w].row)

\* the store after a commit of a lookup that raised
LookupRaises(w, table) == table

\* "session.commit()" of a slug lookup raises
Raises(w, op, table, tableAfter) ==
    /\ sessions[w].pc = "read"
    /\ sessions[w].op = op
    /\ counters.faults < MaxFaults
    /\ tableAfter = LookupRaises(w, table)
    /\ sessions' = [sessions EXCEPT ![w] = Exit("raised")]
    /\ counters' = [counters EXCEPT !.faults = @ + 1]
    /\ last' = Call("raised", <<op, sessions[w].slug>>, "commit")

project_commit_fails(w) ==
    /\ Raises(w, "get_project_by_slug", projects, projects')
    /\ UNCHANGED <<users, site_config, galleries, three_d_projects, side_tables,
                   clock, extra>>

\* "session.commit()" of create_contact_message raises
create_contact_message_fails ==
    /\ counters.faults < MaxFaults
    /\ \E call \in ServiceCalls :
          /\ Validates(call[1])
          /\ last' = Call("raised", <<"create_contact_message", call>>, "commit")
    /\ counters' = [counters EXCEPT !.faults = @ + 1]
    /\ UNCHANGED <<tables, clock, extra, sessions>>

(***************************************************************************)
(* Specifications.                                                         *)
(***************************************************************************)
\* the seed, every table written out of band, and the slug lookups
Next ==
    \/ create_sample_data
    \/ InsertUser
    \/ InsertProject
    \/ InsertGallery
    \/ InsertThreeDProject
    \/ get_project_by_slug
    \/ get_gallery_by_slug
    \/ get_3d_project_by_slug

Spec == Init /\ [][Next]_vars

\* the operations on table "projects"
NextProjects ==
    \/ create_sample_data
    \/ InsertUser
    \/ InsertProject
    \/ get_project_by_slug
    \/ get_featured_projects
    \/ get_projects_by_type

SpecProjects == Init /\ [][NextProjects]_vars

\* the operations on table "galleries"
NextGalleries ==
    \/ create_sample_data
    \/ InsertUser
    \/ InsertGallery
    \/ get_gallery_by_slug
    \/ get_featured_galleries
    \/ get_galleries_by_type

SpecGalleries == Init /\ [][NextGalleries]_vars

\* the listings of all three families
NextListings ==
    \/ create_sample_data
    \/ InsertUser
    \/ InsertProject
    \/ InsertGallery
    \/ InsertThreeDProject
    \/ get_featured_projects
    \/ get_projects_by_type
    \/ get_featured_galleries
    \/ get_galleries_by_type
    \/ get_featured_3d_projects

SpecListings == Init /\ [][NextListings]_vars

\* every operation of the two services, one call at a time
NextService ==
    \/ create_sample_data
    \/ get_site_config
    \/ get_portfolio_owner
    \/ get_featured_projects
    \/ get_project_by_slug
    \/ get_project_images
    \/ get_featured_galleries
    \/ get_gallery_by_slug
    \/ get_gallery_photos
    \/ get_featured_3d_projects
    \/ get_3d_project_by_slug
    \/ get_3d_project_renders
    \/ create_contact_message
    \/ get_recent_messages

SpecService == Init /\ [][NextService]_vars

\* the slug lookups of workers running at the same time, on the seeded store
NextConcurrent ==
    \/ create_sample_data
    \/ \E w \in Workers : project_select(w)
    \/ \E w \in Workers : project_commit(w)
    \/ \E w \in Workers : gallery_select(w)
    \/ \E w \in Workers : gallery_commit(w)
    \/ \E w \in Workers : three_d_project_select(w)
    \/ \E w \in Workers : three_d_project_commit(w)

SpecConcurrent == Init /\ [][NextConcurrent]_vars

\* seeds of workers running at the same time on a store that may fail, and
\* the reads of the home page
NextSeed ==
    \/ \E w \in Workers : seed_enter(w)
    \/ \E w \in Workers : seed_check(w)
    \/ \E w \in Workers : seed_commit_owner(w)
    \/ \E w \in Workers : seed_commit_projects(w)
    \/ \E w \in Workers : seed_commit_galleries(w)
    \/ \E w \in Workers : seed_commit_three_d(w)
    \/ \E w \in Workers : seed_commit_fails(w)
    \/ get_site_config
    \/ get_portfolio_owner

SpecSeed == Init /\ [][NextSeed]_vars

\* seeds, project lookups and contact messages of workers running at the same
\* time on a store whose commits may fail
NextFaults ==
    \/ \E w \in Workers : seed_enter(w)
    \/ \E w \in Workers : seed_check(w)
    \/ \E w \in Workers : seed_commit_owner(w)
    \/ \E w \in Workers : seed_commit_projects(w)
    \/ \E w \in Workers : seed_commit_galleries(w)
    \/ \E w \in Workers : seed_commit_three_d(w)
    \/ \E w \in Workers : seed_commit_fails(w)
    \/ \E w \in Workers : project_select(w)
    \/ \E w \in Workers : project_commit(w)
    \/ \E w \in Workers : project_commit_fails(w)
    \/ create_contact_message_fails

SpecFaults == Init /\ [][NextFaults]_vars

\* the home page: the site configuration, the owner and the featured work
NextSite ==
    \/ create_sample_data
    \/ InsertUser
    \/ InsertThreeDProject
    \/ get_site_config
    \/ get_portfolio_owner
    \/ get_featured_projects

SpecSite == Init /\ [][NextSite]_vars

\* the child listings
NextChildren ==
    \/ create_sample_data
    \/ InsertProjectImage
    \/ InsertPhoto
    \/ InsertThreeDRender
    \/ get_project_images
    \/ get_gallery_photos
    \/ get_3d_project_renders

SpecChildren == Init /\ [][NextChildren]_vars

\* the contact form and the message inbox
NextMessages ==
    \/ create_contact_message
    \/ ContactMessageCreateError
    \/ send_message
    \/ get_recent_messages

SpecMessages == Init /\ [][NextMessages]_vars

(***************************************************************************)
(* Properties.                                                             *)
(***************************************************************************)
Viewed(r) == [r EXCEPT !.view_count = r.view_count + 1]

NoExtra == \A t \in DOMAIN extra : extra[t] = 0

\* The step is a call of slug lookup `op` on `table` that finds a row: the
\* row is stored and returned with its view_count one greater than before.
LookupIncrements(op, table, tableAfter) ==
    \A r \in table :
        (last'.op = op /\ last'.arg = r.slug) =>
            /\ last'.ret = {Viewed(r)}
            /\ tableAfter = (table \ {r}) \cup {Viewed(r)}

\* Two calls of lookup `op` in a row with the same slug that both find a row
\* return consecutive counts, and the first lookup after the seed has filled an
\* empty store returns 1.
LookupCounts(op) ==
    /\ (last.op = op /\ last'.op = op /\ last.arg = last'.arg /\ last.ret # {}) =>
           \E a \in last.ret : \E b \in last'.ret : b.view_count = a.view_count + 1
    /\ (last.op = "create_sample_data" /\ last.ret = "seeded" /\ NoExtra
        /\ last'.op = op /\ last'.ret # {}) =>
           \A b \in last'.ret : b.view_count = 1

\* C1: for Project, Gallery and ThreeDProject alike, a slug lookup that finds a
\* row stores and returns a view_count exactly 1 greater than the value stored
\* before the call; so the k-th lookup in a row of a seeded slug returns k.
C1_LookupIncrementsViewCount ==
    [][/\ LookupIncrements("get_project_by_slug", projects, projects')
       /\ LookupIncrements("get_gallery_by_slug", galleries, galleries')
       /\ LookupIncrements("get_3d_project_by_slug", three_d_projects, three_d_projects')
       /\ LookupCounts("get_project_by_slug")
       /\ LookupCounts("get_gallery_by_slug")
       /\ LookupCounts("get_3d_project_by_slug")]_vars

\* the second lookup of a seeded slug on a store that only the seed has written
\* returned view_count 2
C1_Witness ==
    /\ last.op = "get_gallery_by_slug"
    /\ last.arg = "urban-landscapes"
    /\ NoExtra
    /\ \E g \in last.ret : g.view_count = 2 /\ g \in galleries

\* The step is a call of slug lookup `op` whose slug no row of `table` carries.
LookupMiss(op, table) ==
    (last'.op = op /\ \A r \in table : r.slug # last'.arg) =>
        /\ last'.ret = {}
        /\ UNCHANGED tables

\* C2: a slug lookup whose slug matches no row of its own table returns None
\* and leaves every table unchanged.
C2_LookupMissNoWrite ==
    [][/\ LookupMiss("get_project_by_slug", projects)
       /\ LookupMiss("get_gallery_by_slug", galleries)
       /\ LookupMiss("get_3d_project_by_slug", three_d_projects)]_vars

\* a project lookup missed on a seeded store
C2_Witness ==
    /\ last.op = "get_project_by_slug"
    /\ last.arg = "nonexistent-project"
    /\ last.ret = {}
    /\ projects # {}

\* the store holds what one run of the seed writes: one owner, one site
\* configuration and the two sample rows of each content table
SeededOnce(us, cs, ps, gs, ts) ==
    /\ Cardinality(us) = 1
    /\ Cardinality(cs) = 1
    /\ Cardinality(ps) = 2 /\ {p.slug : p \in ps} = SeedProjectSlugs
    /\ Cardinality(gs) = 2 /\ {g.slug : g \in gs} = SeedGallerySlugs
    /\ Cardinality(ts) = 2 /\ {t.slug : t \in ts} = SeedThreeDSlugs

\* C3: create_sample_data called a second time, right after a call on a fresh
\* store, returns normally and leaves the store as the first call left it: one
\* owner and the same sample rows, none of them twice.
C3_SeedTwiceSameAsOnce ==
    [][(/\ last.op = "create_sample_data"
        /\ NoExtra
        /\ ViewTotal = 0
        /\ last'.op = "create_sample_data") =>
           /\ UNCHANGED tables
           /\ last'.ret = "skipped"
           /\ SeededOnce(users', site_config', projects', galleries', three_d_projects')]_vars

\* the second call on a store that only the seed has written has returned
C3_Witness ==
    /\ last.op = "create_sample_data"
    /\ last.ret = "skipped"
    /\ NoExtra
    /\ ViewTotal = 0
    /\ SeededOnce(users, site_config, projects, galleries, three_d_projects)

\* C4: in a store with at least one row in "users", active or not, whatever the
\* other tables hold, create_sample_data returns without writing any row.
C4_SeedNoOpWhenOwnerExists ==
    [][(last'.op = "create_sample_data" /\ users # {}) =>
           /\ UNCHANGED tables
           /\ last'.ret = "skipped"]_vars

\* the seed returned on a store whose only row is an inactive user
C4_Witness ==
    /\ last.op = "create_sample_data"
    /\ last.ret = "skipped"
    /\ users # {}
    /\ \A u \in users : ~u.is_active
    /\ site_config = {} /\ projects = {} /\ galleries = {} /\ three_d_projects = {}

\* C5: a create_sample_data call that completes on an empty store leaves one
\* owner, one site configuration, two projects (ui_ux, published, featured), two
\* galleries (featured, public) and two 3D projects (featured), all with
\* view_count 0.
C5_SeedContents ==
    [][(/\ last'.op = "create_sample_data"
        /\ last'.ret # "raised"
        /\ users = {} /\ site_config = {} /\ projects = {}
        /\ galleries = {} /\ three_d_projects = {}) =>
           /\ Cardinality(users') = 1
           /\ Cardinality(site_config') = 1
           /\ Cardinality(projects') = 2
           /\ \A p \in projects' :
                  /\ p.project_type = "ui_ux" /\ p.status = "published"
                  /\ p.featured /\ p.view_count = 0
           /\ Cardinality(galleries') = 2
           /\ \A g \in galleries' : g.featured /\ g.is_public /\ g.view_count = 0
           /\ Cardinality(three_d_projects') = 2
           /\ \A t \in three_d_projects' : t.featured /\ t.view_count = 0]_vars

\* the seed has completed on the empty store
C5_Witness ==
    /\ last.op = "create_sample_data"
    /\ last.ret = "seeded"
    /\ NoExtra
    /\ Cardinality(projects) = 2
    /\ Cardinality(three_d_projects) = 2

Range(seq) == {seq[i] : i \in 1..Len(seq)}

\* C6: every record get_featured_projects returns, whatever the limit, is a
\* stored project with status published and featured true.
C6_FeaturedProjectsFiltered ==
    last.op = "get_featured_projects" =>
        \A p \in Range(last.ret) :
            p \in projects /\ p.status = "published" /\ p.featured

\* the listing returned rows while a featured draft was stored
C6_Witness ==
    /\ last.op = "get_featured_projects"
    /\ Len(last.ret) >= 2
    /\ \E p \in projects : p.featured /\ p.status = "draft"

\* C7: without a limit, get_projects_by_type(t) returns exactly the projects
\* with status published and project_type t, each once.
C7_ProjectsByTypeExact ==
    (last.op = "get_projects_by_type" /\ last.arg[2] = None) =>
        /\ Range(last.ret) =
               {p \in projects : p.status = "published" /\ p.project_type = last.arg[1]}
        /\ Len(last.ret) = Cardinality(Range(last.ret))

\* the listing returned the published rows of a type of which an unpublished
\* row was stored too
C7_Witness ==
    /\ last.op = "get_projects_by_type"
    /\ last.arg[2] = None
    /\ Len(last.ret) >= 2
    /\ \E p \in projects : p.project_type = last.arg[1] /\ p.status # "published"

\* C8: get_project_by_slug matches on the slug alone: a draft or archived
\* project is returned with its view_count incremented, although no listing of
\* projects returns it.
C8_LookupIgnoresStatus ==
    [][\A r \in projects :
          (/\ last'.op = "get_project_by_slug"
           /\ last'.arg = r.slug
           /\ r.status \in {"draft", "archived"}) =>
              /\ last'.ret = {Viewed(r)}
              /\ projects' = (projects \ {r}) \cup {Viewed(r)}
              /\ \A limit \in Limits :
                     Viewed(r) \notin Range(FeaturedProjects(projects', limit))
              /\ \A t \in ProjectType, limit \in Limits \cup {None} :
                     Viewed(r) \notin Range(ProjectsByType(projects', t, limit))]_vars

\* a featured archived project was looked up twice
C8_Witness ==
    /\ last.op = "get_project_by_slug"
    /\ \E r \in last.ret : r.status = "archived" /\ r.featured /\ r.view_count = 2

\* C9: get_gallery_by_slug does not look at visibility: a gallery with
\* is_public false is returned with its view_count incremented.
C9_LookupIgnoresVisibility ==
    [][\A g \in galleries :
          (/\ last'.op = "get_gallery_by_slug"
           /\ last'.arg = g.slug
           /\ ~g.is_public) =>
              /\ last'.ret = {Viewed(g)}
              /\ galleries' = (galleries \ {g}) \cup {Viewed(g)}]_vars

\* a gallery that is not public was looked up
C9_Witness ==
    /\ last.op = "get_gallery_by_slug"
    /\ \E g \in last.ret : ~g.is_public /\ g.view_count >= 1 /\ g \in galleries

\* C10: every record get_featured_galleries returns is public and featured,
\* and every record get_galleries_by_type(t) returns is public and of type t.
C10_GalleryListingsPublic ==
    /\ last.op = "get_featured_galleries" =>
           \A g \in Range(last.ret) : g \in galleries /\ g.is_public /\ g.featured
    /\ last.op = "get_galleries_by_type" =>
           \A g \in Range(last.ret) :
               g \in galleries /\ g.is_public /\ g.gallery_type = last.arg[1]

\* the by-type listing returned rows while a gallery of that type that is not
\* public was stored
C10_Witness ==
    /\ last.op = "get_galleries_by_type"
    /\ Len(last.ret) >= 1
    /\ \E g \in galleries : ~g.is_public /\ g.featured /\ g.gallery_type = last.arg[1]

ListingOps ==
    {"get_featured_projects", "get_projects_by_type", "get_featured_galleries",
     "get_galleries_by_type", "get_featured_3d_projects"}

\* C11: every featured and by-type listing returns its records in
\* non-increasing sort_order, and records of equal sort_order in
\* non-increasing created_at
C11_ListingsOrdered ==
    last.op \in ListingOps =>
        \A i \in 1..(Len(last.ret) - 1) :
            \/ last.ret[i].sort_order > last.ret[i + 1].sort_order
            \/ /\ last.ret[i].sort_order = last.ret[i + 1].sort_order
               /\ last.ret[i].created_at >= last.ret[i + 1].created_at

\* a listing returned two records of equal sort_order that were created at
\* different times
C11_Witness ==
    /\ last.op \in ListingOps
    /\ \E i \in 1..(Len(last.ret) - 1) :
          /\ last.ret[i].sort_order = last.ret[i + 1].sort_order
          /\ last.ret[i].created_at > last.ret[i + 1].created_at

FeaturedOps ==
    {"get_featured_projects", "get_featured_galleries", "get_featured_3d_projects"}

\* the rows a featured listing selects, before ordering and truncation
FeaturedRows(op) ==
    CASE op = "get_featured_projects" ->
             {p \in projects : p.featured /\ p.status = "published"}
      [] op = "get_featured_galleries" ->
             {g \in galleries : g.featured /\ g.is_public}
      [] op = "get_featured_3d_projects" ->
             {t \in three_d_projects : t.featured}

\* C12: for every limit L >= 0 a featured listing returns exactly the first
\* min(L, n) records of the full ordered list of the n rows it selects; with
\* the default limit that is at most 6 records
C12_FeaturedLimit ==
    last.op \in FeaturedOps =>
        LET L    == last.arg[1]
            full == OrderBy(FeaturedRows(last.op))
            n    == Len(full)
        IN  /\ Len(last.ret) = (IF L < n THEN L ELSE n)
            /\ \A i \in 1..Len(last.ret) : last.ret[i] = full[i]
            /\ L = DefaultLimit => Len(last.ret) <= 6

\* a featured listing was cut short: more rows qualify than the limit allows
C12_Witness ==
    /\ last.op \in FeaturedOps
    /\ last.arg[1] > 0
    /\ Cardinality(FeaturedRows(last.op)) > last.arg[1]
    /\ Len(last.ret) = last.arg[1]

\* C13: create_contact_message stores exactly one new row and returns it; its
\* id is the store's and differs from every id already there, its name, email,
\* subject and message are the input's, its ip_address and user_agent are the
\* arguments verbatim, and its status is new
C13_CreateContactMessage ==
    [][last'.op = "create_contact_message" =>
          \E row \in contact_messages' :
              /\ row \notin contact_messages
              /\ contact_messages' = contact_messages \cup {row}
              /\ \A m \in contact_messages : m.id # row.id
              /\ last'.ret = {row}
              /\ \A f \in Fields : row[f] = last'.arg[1][f]
              /\ row.ip_address = last'.arg[2]
              /\ row.user_agent = last'.arg[3]
              /\ row.status = "new"
              /\ UNCHANGED <<users, site_config, projects, galleries, three_d_projects,
                             project_images, photos, three_d_renders>>]_vars

\* a message with the client's address and agent was stored next to an
\* earlier one
C13_Witness ==
    /\ last.op = "create_contact_message"
    /\ last.arg[2] = "192.168.1.1"
    /\ last.arg[3] = "Test Browser"
    /\ Cardinality(contact_messages) >= 2
    /\ last.ret \subseteq contact_messages

\* C14: after n messages were created one after the other,
\* get_recent_messages(limit=k) returns the min(k, n) messages created last,
\* the newest first
C14_RecentMessages ==
    last.op = "get_recent_messages" =>
        LET k == last.arg[1]
            n == Cardinality(contact_messages)
        IN  /\ Len(last.ret) = (IF k < n THEN k ELSE n)
            /\ \A i \in 1..Len(last.ret) :
                  /\ last.ret[i] \in contact_messages
                  /\ Cardinality({m \in contact_messages : m.id > last.ret[i].id}) = i - 1

\* three messages and limit 2: the third, then the second
C14_Witness ==
    /\ last.op = "get_recent_messages"
    /\ last.arg[1] = 2
    /\ Cardinality(contact_messages) = 3
    /\ Len(last.ret) = 2
    /\ last.ret[1].id = 3
    /\ last.ret[2].id = 2

\* a submission that leaves a field out (in the form: empty) or has a field
\* longer than the schema allows
Invalid(kwargs) ==
    \E f \in Fields :
        \/ f \notin DOMAIN kwargs
        \/ kwargs[f].len = 0
        \/ f = "name" /\ kwargs[f].len > 100
        \/ f = "email" /\ kwargs[f].len > 255
        \/ f = "subject" /\ kwargs[f].len > 200
        \/ f = "message" /\ kwargs[f].len > 2000

\* C15: a contact submission that omits one of name, email, subject and
\* message, or whose name exceeds 100, email 255, subject 200 or message 2000
\* characters, is rejected as a validation failure and no row is stored for it
C15_InvalidSubmissionRejected ==
    [][/\ last'.op \in {"send_message", "ContactMessageCreate"} =>
            /\ Invalid(last'.arg)
            /\ last'.ret \in {"Please fill in all fields", "Error sending message",
                              "ValidationError"}
            /\ contact_messages' = contact_messages
       /\ last'.op = "create_contact_message" => ~Invalid(last'.arg[1])
       /\ \A m \in contact_messages' \ contact_messages :
              last'.op = "create_contact_message" /\ ~Invalid(m)]_vars

\* the form was sent with a name of 101 characters while a message was stored
C15_Witness ==
    /\ last.op = "send_message"
    /\ last.arg.name.len = 101
    /\ last.ret = "Error sending message"
    /\ contact_messages # {}

\* the child rows of the parent with the given id, and whether that parent exists
ChildrenOf(op, id) ==
    CASE op = "get_project_images" -> {c \in project_images : c.project_id = id}
      [] op = "get_gallery_photos" -> {c \in photos : c.gallery_id = id}
      [] op = "get_3d_project_renders" -> {c \in three_d_renders : c.project_id = id}

ParentExists(op, id) ==
    CASE op = "get_project_images" -> \E r \in projects : r.id = id
      [] op = "get_gallery_photos" -> \E r \in galleries : r.id = id
      [] op = "get_3d_project_renders" -> \E r \in three_d_projects : r.id = id

\* C16: get_project_images, get_gallery_photos and get_3d_project_renders
\* return exactly the child rows whose foreign key is the given id, each once;
\* for an id without parent or a parent without children that is the empty
\* list, and the call writes nothing
C16_ChildListings ==
    [][last'.op \in {"get_project_images", "get_gallery_photos", "get_3d_project_renders"} =>
          LET id == last'.arg[1]
              children == ChildrenOf(last'.op, id)
          IN  /\ Range(last'.ret) = children
              /\ Len(last'.ret) = Cardinality(children)
              /\ (~ParentExists(last'.op, id) \/ children = {}) => last'.ret = <<>>
              /\ UNCHANGED <<tables, clock>>]_vars

\* of two stored images the listing returned the one of the project asked for
C16_Witness ==
    /\ last.op = "get_project_images"
    /\ Cardinality(project_images) = 2
    /\ Len(last.ret) = 1
    /\ last.ret[1].project_id = last.arg[1]

\* C17: get_site_config returns nothing on a store that was not seeded; after
\* create_sample_data on a fresh store it returns the single configuration
\* row, whose site_title is "Alexandra Smith - Designer & Photographer"; it
\* never changes the store
C17_SiteConfig ==
    [][last'.op = "get_site_config" =>
          /\ UNCHANGED <<tables, clock>>
          /\ (projects = {} /\ galleries = {}) => last'.ret = {}
          /\ SeedThreeDSlugs \subseteq {t.slug : t \in three_d_projects} =>
                 /\ last'.ret = site_config
                 /\ Cardinality(last'.ret) = 1
                 /\ \A c \in last'.ret :
                        c.site_title = "Alexandra Smith - Designer & Photographer"]_vars

\* the configuration was read after the seed
C17_Witness ==
    /\ last.op = "get_site_config"
    /\ last.ret # {}
    /\ SeedThreeDSlugs \subseteq {t.slug : t \in three_d_projects}

\* C18: get_portfolio_owner returns an Owner whose is_active is true whenever
\* there is one, never an inactive Owner, and nothing when no Owner is active
C18_PortfolioOwnerActive ==
    last.op = "get_portfolio_owner" =>
        /\ last.ret \subseteq {u \in users : u.is_active}
        /\ (\E u \in users : u.is_active) => Cardinality(last.ret) = 1
        /\ (\A u \in users : ~u.is_active) => last.ret = {}

\* an active Owner was returned from a store that also holds an inactive one
C18_Witness ==
    /\ last.op = "get_portfolio_owner"
    /\ \E u \in users : ~u.is_active
    /\ \E u \in last.ret : u.is_active

\* the view_count of every stored row with a view_count
ViewCounts(ps, gs, ts) ==
    [t \in {"projects", "galleries", "three_d_projects"} |->
        LET table == CASE t = "projects" -> ps
                       [] t = "galleries" -> gs
                       [] t = "three_d_projects" -> ts
        IN  [id \in {r.id : r \in table} |->
                (CHOOSE r \in table : r.id = id).view_count]]

\* C19: under every interleaving of the operations, slug lookups running at
\* the same time included, the stored view_count of every Project, Gallery
\* and ThreeDProject never decreases from one committed state to the next
C19_ViewCountNeverDecreases ==
    [][LET before == ViewCounts(projects, galleries, three_d_projects)
           after  == ViewCounts(projects', galleries', three_d_projects')
       IN  \A t \in DOMAIN before :
               \A id \in DOMAIN before[t] :
                   id \in DOMAIN after[t] /\ after[t][id] >= before[t][id]]_vars

\* the rows of a table that the step deleted or changed
Touched(table, tableAfter) == table \ tableAfter

\* the step was the lookup op of this table and changed nothing but the
\* view_count of the one row that carries the slug asked for
OnlyViewed(op, table, tableAfter) ==
    /\ last'.op = op
    /\ \E r \in table :
          /\ r.slug = last'.arg
          /\ Touched(table, tableAfter) = {r}
          /\ tableAfter = (table \ {r}) \cup {Viewed(r)}

ReadOps ==
    ListingOps \cup {"get_project_images", "get_gallery_photos", "get_3d_project_renders",
                     "get_site_config", "get_portfolio_owner", "get_recent_messages"}

UniqueSlugs(table) == \A a, b \in table : a.slug = b.slug => a = b

C22_OneSiteConfig ==
    /\ Cardinality(site_config) <= 1
    /\ Cardinality(site_config) <= Cardinality(users)
    /\ Cardinality(users) <= 1

\* two seed calls passed the existing-Owner check; the commit of one of them
\* was rejected and the configuration is stored once
C22_Witness ==
    /\ last.op = "create_sample_data"
    /\ last.ret = "raised"
    /\ counters.faults = 0
    /\ Cardinality(site_config) = 1

\* what each table holds of the five groups of the seed
SeedGroups(us, cs, ps, gs, ts) ==
    <<us # {}, cs # {}, ps # {}, gs # {}, ts # {}>>

\* the five groups became durable one commit each, in the order Owner,
\* SiteConfig, Projects, Galleries, ThreeDProjects
C25_FiveCommitsInOrder ==
    [][SeedGroups(users', site_config', projects', galleries', three_d_projects')
          # SeedGroups(users, site_config, projects, galleries, three_d_projects)
       => \E step \in
              {<<<<FALSE, FALSE, FALSE, FALSE, FALSE>>, <<TRUE, FALSE, FALSE, FALSE, FALSE>>>>,
               <<<<TRUE, FALSE, FALSE, FALSE, FALSE>>, <<TRUE, TRUE, FALSE, FALSE, FALSE>>>>,
               <<<<TRUE, TRUE, FALSE, FALSE, FALSE>>, <<TRUE, TRUE, TRUE, FALSE, FALSE>>>>,
               <<<<TRUE, TRUE, TRUE, FALSE, FALSE>>, <<TRUE, TRUE, TRUE, TRUE, FALSE>>>>,
               <<<<TRUE, TRUE, TRUE, TRUE, FALSE>>, <<TRUE, TRUE, TRUE, TRUE, TRUE>>>>} :
              /\ step[1] = SeedGroups(users, site_config, projects, galleries, three_d_projects)
              /\ step[2] = SeedGroups(users', site_config', projects', galleries',
                                    three_d_projects')]_vars

\* C25: seeding an empty store makes its groups durable in four commits, in
\* the order Owner, then SiteConfig together with both Projects, then both
\* Galleries, then both ThreeDProjects; no committed state holds the
\* SiteConfig without the Projects
C25_FourCommitsInOrder ==
    [][/\ SeedGroups(users', site_config', projects', galleries', three_d_projects')
            # SeedGroups(users, site_config, projects, galleries, three_d_projects)
          => \E step \in
               {<<<<FALSE, FALSE, FALSE, FALSE, FALSE>>, <<TRUE, FALSE, FALSE, FALSE, FALSE>>>>,
                <<<<TRUE, FALSE, FALSE, FALSE, FALSE>>, <<TRUE, TRUE, TRUE, FALSE, FALSE>>>>,
                <<<<TRUE, TRUE, TRUE, FALSE, FALSE>>, <<TRUE, TRUE, TRUE, TRUE, FALSE>>>>,
                <<<<TRUE, TRUE, TRUE, TRUE, FALSE>>, <<TRUE, TRUE, TRUE, TRUE, TRUE>>>>} :
               /\ step[1] = SeedGroups(users, site_config, projects, galleries, three_d_projects)
               /\ step[2] = SeedGroups(users', site_config', projects', galleries',
                                     three_d_projects')
       /\ projects' # {} => Cardinality(projects') = 2
       /\ galleries' # {} => Cardinality(galleries') = 2
       /\ three_d_projects' # {} => Cardinality(three_d_projects') = 2]_vars

\* a seed call is between its second and its third commit: the Owner, the
\* SiteConfig and both Projects are stored, no Gallery yet
C25_Witness ==
    /\ \E w \in Workers : sessions[w].pc = "seed" /\ sessions[w].at = "galleries"
    /\ Cardinality(users) = 1
    /\ Cardinality(site_config) = 1
    /\ Cardinality(projects) = 2
    /\ galleries = {}

\* C28: on a store that starts empty every Project and every Gallery row has
\* the id of a stored Owner as its owner_id; the seeded rows carry the id the
\* store assigned to the Owner of the same seed call
C28_OwnerIdOfOwner ==
    \A r \in projects \cup galleries :
        \E u \in users : u.id = r.owner_id /\ u.email = SeedEmail

\* the seed has stored its Projects and Galleries
C28_Witness ==
    /\ Cardinality(projects) = 2
    /\ Cardinality(galleries) = 2
    /\ \A r \in projects \cup galleries : r.owner_id = 1

NoSeedInProgress == \A w \in Workers : sessions[w].pc # "seed"

SeedComplete ==
    /\ Cardinality(site_config) = 1
    /\ {p.slug : p \in projects} = SeedProjectSlugs
    /\ {g.slug : g \in galleries} = SeedGallerySlugs
    /\ {t.slug : t \in three_d_projects} = SeedThreeDSlugs

\* C29: whenever no seed call is in progress and the store holds an Owner, it
\* also holds the SiteConfig, both Projects, both Galleries and both
\* ThreeDProjects, also after a seed call that failed at a commit and a seed
\* call made afterwards
C29_OwnerImpliesSeedComplete ==
    (NoSeedInProgress /\ users # {}) => SeedComplete

\* C30: after two seed calls that ran at the same time on an empty store,
\* with no fault of the storage, the store holds what one call leaves: one
\* Owner, one SiteConfig, two Projects, two Galleries, two ThreeDProjects
C30_ConcurrentSeedsAsOne ==
    (NoSeedInProgress /\ counters.faults = 0 /\ users # {}) =>
        /\ Cardinality(users) = 1
        /\ Cardinality(site_config) = 1
        /\ Cardinality(projects) = 2
        /\ Cardinality(galleries) = 2
        /\ Cardinality(three_d_projects) = 2

\* both calls passed the check on the empty store; one stored everything, the
\* other one's Owner commit was rejected, and both have ended
C30_Witness ==
    /\ NoSeedInProgress
    /\ counters.faults = 0
    /\ last.op = "create_sample_data"
    /\ last.ret = "raised"
    /\ Cardinality(three_d_projects) = 2

\* the step ends a call with the exception of a rejected commit
Raised(l) ==
    \/ l.op = "raised"
    \/ l.op = "create_sample_data" /\ l.ret = "raised"

\* C23: when the store rejects a commit of a seed or service call, for a
\* unique column or a fault of the storage, the call ends there with the
\* error and is not retried, none of the rows of the rejected commit is
\* stored, the rows of earlier commits stay, and the worker is free for its
\* next call
C23_RejectedCommit ==
    [][/\ Raised(last') =>
            /\ tables' = tables
            /\ \A w \in Workers : sessions'[w] \in {sessions[w], Idle}
       /\ \A w \in Workers :
            (/\ sessions[w].pc = "seed"
             /\ sessions[w].at = "owner"
             /\ sessions'[w] # sessions[w]
             /\ EmailConflict(users, {SeedOwner(NextId(users), clock)}))
            => Raised(last') /\ sessions'[w] = Idle]_vars

\* after a commit that failed for a fault of the storage, a lookup returned
\* the project with its count incremented
C23_Witness ==
    /\ counters.faults > 0
    /\ last.op = "get_project_by_slug"
    /\ last.ret # {}
    /\ \E p \in projects : p.view_count > 0

C26_TwoLookups ==
    (/\ counters.lookups = 2
     /\ \A w \in Workers : sessions[w].pc = "idle") =>
        /\ ViewTotal \in {1, 2}
        /\ \A r \in projects \cup galleries \cup three_d_projects : r.view_count \in 0..2

\* both lookups loaded view_count 0 of the same project and both wrote 1
C26_Witness ==
    /\ counters.lookups = 2
    /\ \A w \in Workers : sessions[w].pc = "idle"
    /\ last.op = "get_project_by_slug"
    /\ ViewTotal = 1
    /\ \E p \in projects : p.view_count = 1

\* the rows a by-type listing returns when no limit is passed
Untruncated(op, type) ==
    IF op = "get_projects_by_type"
    THEN ProjectsByType(projects, type, None)
    ELSE GalleriesByType(galleries, type, None)

\* C27: whenever a limit is passed to get_projects_by_type or
\* get_galleries_by_type, 0 included, the result has at most limit records
\* and they are the first records of the ordered result without a limit
C27_SuppliedLimitTruncates ==
    (/\ last.op \in {"get_projects_by_type", "get_galleries_by_type"}
     /\ last.arg[2] # None) =>
        /\ Len(last.ret) <= last.arg[2]
        /\ last.ret = SubSeq(Untruncated(last.op, last.arg[1]), 1, Len(last.ret))

====
